---- MODULE Spec2Model ----
(***************************************************************************)
(* Model of google-keep-clone.py: the migration of notes, labels and       *)
(* reminders from a source Keep account to a destination Keep account.     *)
(*                                                                         *)
(* The script is sequential: count_source_notes, sync_labels, copy_notes,  *)
(* copy_reminders, a final dst.sync().  The remote operations the script   *)
(* guards with try/except (createNote and the mutations of the new note,   *)
(* attachment fetch/add, dst.get, reminders.set) and createLabel may fail; *)
(* each failure is an input chosen by the environment.                     *)
(***************************************************************************)
EXTENDS Integers, Sequences, FiniteSets, TLC

(* ---------------- program constants (lines 200-201, 102) --------------- *)
DELAY_SECONDS == 2
MAX_RETRIES == 3
FLUSH_EVERY == 20

(* ---------------- bounds of the model ---------------------------------- *)
MaxSrcNotes == 2      \* notes enumerated by src.all()
MaxFailures == 3      \* failing remote operations over a behaviour
MaxRuns == 2          \* invocations of the script
MaxBulkNotes == 21    \* non-trashed notes of a large source account

(* ---------------- data ------------------------------------------------- *)
LabelNames == {"L1", "L2"}
LabelOrder == <<"L1", "L2">>      \* order in which note.labels.all() enumerates

SeqsUpTo(S, n) == UNION {[1..k -> S] : k \in 0..n}

\* A note of the source account.  labels: names of its labels; media: number
\* of attachments; reminders: its reminder set.
SrcNote(title, text, pinned, archived, trashed, color, labels, media, reminders) ==
    [title |-> title, text |-> text, pinned |-> pinned, archived |-> archived,
     trashed |-> trashed, color |-> color, labels |-> labels, media |-> media,
     reminders |-> reminders]

SrcNoteChoices ==
    { SrcNote("A", "x", TRUE,  FALSE, FALSE, "RED",   {"L1"},       2, {"r1"}),
      SrcNote("A", "x", FALSE, FALSE, TRUE,  "WHITE", {},           0, {"r1"}),
      SrcNote("A", "y", FALSE, TRUE,  FALSE, "WHITE", {"L1", "L2"}, 0, {}) }

\* A label handle: the account it belongs to, its account-local id, its name.
Label(acct, id, name) == [acct |-> acct, id |-> id, name |-> name]

\* A note of the destination account.  labels: label handles; media: number
\* of images added.  origin/byRun are history fields: the index in src.all()
\* of the note it was created for (0: it existed before the migration) and
\* the invocation that created it.
DstNote(title, text, pinned, archived, trashed, color, labels, media, reminders, origin, byRun) ==
    [title |-> title, text |-> text, pinned |-> pinned, archived |-> archived,
     trashed |-> trashed, color |-> color, labels |-> labels, media |-> media,
     reminders |-> reminders, origin |-> origin, byRun |-> byRun]

DstNotesChoices ==
    { <<>>,
      << DstNote("A", "x", FALSE, FALSE, FALSE, "WHITE", {}, 0, {}, 0, 0) >>,
      << DstNote("A", "x", FALSE, FALSE, TRUE,  "WHITE", {}, 0, {"r0"}, 0, 0) >>,
      << DstNote("A", "x", FALSE, FALSE, FALSE, "WHITE", {}, 0, {"r0"}, 0, 0),
         DstNote("A", "x", TRUE,  FALSE, FALSE, "RED",   {}, 0, {}, 0, 0) >> }

\* The texts of the notes of a large source account, all different.
BulkTexts ==
    <<"t01", "t02", "t03", "t04", "t05", "t06", "t07", "t08", "t09", "t10",
      "t11", "t12", "t13", "t14", "t15", "t16", "t17", "t18", "t19", "t20",
      "t21", "t22", "t23", "t24", "t25">>

\* A large source account: possibly a trashed note, then n plain notes with a
\* reminder each, no two with the same (title, text).
BulkNotes(t, n) ==
    (IF t THEN << SrcNote("B", "t00", FALSE, FALSE, TRUE, "WHITE", {}, 0, {}) >>
          ELSE <<>>)
    \o [i \in 1..n |->
          SrcNote("B", BulkTexts[i], FALSE, FALSE, FALSE, "WHITE", {}, 0, {"r1"})]

SrcLabelsOf(names) == [k \in 1..Len(names) |-> Label("src", k, names[k])]

\* The labels of the two accounts: what src.labels() enumerates (a name may
\* come more than once) and what dst.labels() holds.
LabelsChoices ==
    { [src |-> SrcLabelsOf(<<>>),           dst |-> <<>>],
      [src |-> SrcLabelsOf(<<>>),           dst |-> << Label("dst", 1, "L1") >>],
      [src |-> SrcLabelsOf(<<"L1">>),       dst |-> <<>>],
      [src |-> SrcLabelsOf(<<"L1", "L1">>), dst |-> <<>>],
      [src |-> SrcLabelsOf(<<"L2", "L1">>), dst |-> << Label("dst", 1, "L1") >>] }

(* ---------------- state ------------------------------------------------ *)
VARIABLES
    src,        \* source session: [notes, labels]
    dst,        \* destination session (local state): [notes, labels]
    remote,     \* destination account as of the last dst.sync()
    pc,         \* position in the script
    run,        \* number of the current invocation
    counts,     \* result of count_source_notes
    dst_labels, \* sync_labels / copy_notes: name -> destination label handle
    idx,        \* index of the loop over src.labels() / src.all()
    attempt,    \* index of the retry loop
    copied,     \* copy_notes: notes copied
    note,       \* copy_reminders: the loop variable of line 111 (0: unbound)
    dst_notes_lookup, \* copy_reminders: (title, text) -> index in dst.all()
    dst_note,   \* copy_reminders: the destination note being updated
    reminders_copied_count,
    total_source_notes_with_reminders,
    failures,   \* failed remote operations so far
    log,        \* history: events of this invocation, in order
    prev        \* history: summary of the previous invocation

vars == <<src, dst, remote, pc, run, counts, dst_labels, idx, attempt, copied,
          note, dst_notes_lookup, dst_note, reminders_copied_count,
          total_source_notes_with_reminders, failures, log, prev>>

\* An event: its kind, the index in src.all() / src.labels() of the item it
\* is about (0: none), and the seconds slept (time.sleep only).
Ev(e, n) == [e |-> e, n |-> n, d |-> 0]

Slept(e, n, d) == [e |-> e, n |-> n, d |-> d]

Logged(e, n) == \E k \in 1..Len(log) : log[k] = Ev(e, n)

CountEv(e, n) == Cardinality({k \in 1..Len(log) : log[k] = Ev(e, n)})

NoMapping == [nm \in {} |-> Label("dst", 0, nm)]

NoPrev == [ran |-> FALSE, labelsReturned |-> FALSE, labelsCreated |-> 0,
           notesReturned |-> FALSE, notesCreated |-> 0, exhausted |-> FALSE,
           lost |-> FALSE, terminated |-> FALSE]

Init ==
    /\ \E ns \in SeqsUpTo(SrcNoteChoices, MaxSrcNotes),
          dn \in DstNotesChoices,
          ls \in LabelsChoices :
            /\ src = [notes |-> ns, labels |-> ls.src]
            /\ dst = [notes |-> dn, labels |-> ls.dst]
    /\ remote = dst
    /\ pc = "count"
    /\ run = 1
    /\ counts = <<0, 0, 0>>
    /\ dst_labels = NoMapping
    /\ idx = 0
    /\ attempt = 0
    /\ copied = 0
    /\ note = 0
    /\ dst_notes_lookup = <<>>
    /\ dst_note = 0
    /\ reminders_copied_count = 0
    /\ total_source_notes_with_reminders = 0
    /\ failures = 0
    /\ log = <<>>
    /\ prev = NoPrev

\* The script is started on a large source account and an empty destination;
\* the environment fails at most one remote operation.
InitBulk ==
    /\ \E t \in BOOLEAN, n \in 0..MaxBulkNotes, ls \in LabelsChoices :
            /\ src = [notes |-> BulkNotes(t, n), labels |-> ls.src]
            /\ dst = [notes |-> <<>>, labels |-> ls.dst]
    /\ remote = dst
    /\ pc = "count"
    /\ run = 1
    /\ counts = <<0, 0, 0>>
    /\ dst_labels = NoMapping
    /\ idx = 0
    /\ attempt = 0
    /\ copied = 0
    /\ note = 0
    /\ dst_notes_lookup = <<>>
    /\ dst_note = 0
    /\ reminders_copied_count = 0
    /\ total_source_notes_with_reminders = 0
    /\ failures = MaxFailures - 1
    /\ log = <<>>
    /\ prev = NoPrev

\* The environment may fail one more remote operation.
MayFail == failures < MaxFailures

(* ---------------- count_source_notes (lines 7-28) ---------------------- *)
\* Mutant of count_source_notes: the trashed check of line 20 is left out.
count_source_notes_WithTrashed(notes) ==
    LET total_notes == Len(notes)
        archived_notes == Cardinality({k \in 1..Len(notes) : notes[k].archived})
        active_notes == total_notes - archived_notes
    IN  <<total_notes, archived_notes, active_notes>>

count_source_notes(notes) ==
    LET total_notes == Cardinality({k \in 1..Len(notes) : ~notes[k].trashed})
        archived_notes == Cardinality({k \in 1..Len(notes) :
                                         ~notes[k].trashed /\ notes[k].archived})
        active_notes == total_notes - archived_notes
    IN  <<total_notes, archived_notes, active_notes>>

\* Line 214: the script counts the source notes, then calls sync_labels.
Count ==
    /\ pc = "count"
    /\ counts' = count_source_notes(src.notes)
    /\ pc' = "sync_labels"
    /\ UNCHANGED <<src, dst, remote, run, dst_labels, idx, attempt, copied, note,
                   dst_notes_lookup, dst_note, reminders_copied_count,
                   total_source_notes_with_reminders, failures, log, prev>>

(* ---------------- sync_labels (lines 183-190) -------------------------- *)
\* Line 185: {lbl.name: lbl for lbl in dst.labels()}; a later label of the
\* same name replaces an earlier one.
LabelsByName(labels) ==
    [nm \in {labels[k].name : k \in 1..Len(labels)} |->
        LET ks == {k \in 1..Len(labels) : labels[k].name = nm}
        IN  labels[CHOOSE k \in ks : \A j \in ks : j <= k]]

SL_Build ==
    /\ pc = "sync_labels"
    /\ dst_labels' = LabelsByName(dst.labels)
    /\ idx' = 1
    /\ pc' = "sl_loop"
    /\ UNCHANGED <<src, dst, remote, run, counts, attempt, copied, note,
                   dst_notes_lookup, dst_note, reminders_copied_count,
                   total_source_notes_with_reminders, failures, log, prev>>

\* dst.createLabel(name): a new label of the destination account.
createLabel(labels, name) == Label("dst", Len(labels) + 1, name)

\* Mutant of LabelMissing: the label object is looked up among the values.
LabelMissing_ByObject(mapping, lbl) ==
    lbl \notin {mapping[nm] : nm \in DOMAIN mapping}

\* Line 187: is the label missing from the mapping?
LabelMissing(mapping, lbl) == lbl.name \notin DOMAIN mapping

\* Mutant of MapLabel: the source label is stored instead of the new one.
MapLabel_SourceObject(mapping, lbl, new_lbl) ==
    [nm \in DOMAIN mapping \cup {lbl.name} |->
        IF nm = lbl.name THEN lbl ELSE mapping[nm]]

\* Line 189: dst_labels[lbl.name] = new_lbl
MapLabel(mapping, lbl, new_lbl) ==
    [nm \in DOMAIN mapping \cup {lbl.name} |->
        IF nm = lbl.name THEN new_lbl ELSE mapping[nm]]

\* Lines 186-189, one iteration.  createLabel is not guarded: when it raises,
\* the exception leaves sync_labels and ends the script.
SL_Step ==
    /\ pc = "sl_loop"
    /\ idx <= Len(src.labels)
    /\ LET lbl == src.labels[idx] IN
       IF LabelMissing(dst_labels, lbl)
       THEN \/ /\ LET new_lbl == createLabel(dst.labels, lbl.name) IN
                    /\ dst' = [dst EXCEPT !.labels = Append(@, new_lbl)]
                    /\ dst_labels' = MapLabel(dst_labels, lbl, new_lbl)
               /\ log' = Append(log, Ev("createLabel", idx))
               /\ idx' = idx + 1
               /\ UNCHANGED <<pc, failures>>
            \/ /\ MayFail
               /\ failures' = failures + 1
               /\ log' = Append(log, Ev("createLabelFailed", idx))
               /\ pc' = "aborted"
               /\ UNCHANGED <<dst, dst_labels, idx>>
       ELSE /\ idx' = idx + 1
            /\ UNCHANGED <<dst, dst_labels, pc, failures, log>>
    /\ UNCHANGED <<src, remote, run, counts, attempt, copied, note,
                   dst_notes_lookup, dst_note, reminders_copied_count,
                   total_source_notes_with_reminders, prev>>

\* Line 190 and line 223: sync_labels returns, the script calls copy_notes.
SL_Return ==
    /\ pc = "sl_loop"
    /\ idx > Len(src.labels)
    /\ log' = Append(log, Ev("labelsReturned", 0))
    /\ copied' = 0
    /\ idx' = 1
    /\ pc' = "cn_loop"
    /\ UNCHANGED <<src, dst, remote, run, counts, dst_labels, attempt, note,
                   dst_notes_lookup, dst_note, reminders_copied_count,
                   total_source_notes_with_reminders, failures, prev>>

(* ---------------- copy_notes (lines 50-105) ---------------------------- *)
\* dst.sync(): the local state of the destination session becomes durable.
Synced(session) == session

\* Mutant of IsDuplicate: all(...) instead of any(...).
IsDuplicate_All(n, notes) ==
    \A k \in 1..Len(notes) : notes[k].title = n.title /\ notes[k].text = n.text

\* Mutant of IsDuplicate: the notes of the account as last synced are
\* compared instead of the notes of the session.
IsDuplicate_Stale(n, notes) ==
    \E k \in 1..Len(remote.notes) :
        remote.notes[k].title = n.title /\ remote.notes[k].text = n.text

\* Line 62: any(n.title == note.title and n.text == note.text for n in dst.all())
IsDuplicate(n, notes) ==
    \E k \in 1..Len(notes) : notes[k].title = n.title /\ notes[k].text = n.text

\* Line 66: dst.createNote(title, text): a new note with default attributes.
createNote(title, text, origin, byRun) ==
    DstNote(title, text, FALSE, FALSE, FALSE, "WHITE", {}, 0, {}, origin, byRun)

\* Mutant of AddNote: the new note takes the place of the last note.
AddNote_Overwrite(notes, new_note) ==
    IF notes = <<>> THEN <<new_note>>
    ELSE [notes EXCEPT ![Len(notes)] = new_note]

\* Line 66: createNote adds the new note to the notes of the session.
AddNote(notes, new_note) == Append(notes, new_note)

\* Lines 72-73: the labels of the note whose name is in the mapping, in the
\* order they are enumerated.
Attachable(n, mapping) ==
    SelectSeq(LabelOrder, LAMBDA nm : nm \in n.labels /\ nm \in DOMAIN mapping)

\* Lines 67-74 are 3 + Len(Attachable) mutations of the new note, in order:
\* pinned, archived, color, then one labels.add per attachable label.
Mutations(n, mapping) == 3 + Len(Attachable(n, mapping))

\* Mutant of Mutated: archived is set from the pinned flag.
Mutated_CopyPaste(new_note, n, mapping, p) ==
    [new_note EXCEPT
        !.pinned   = IF p >= 1 THEN n.pinned ELSE @,
        !.archived = IF p >= 2 THEN n.pinned ELSE @,
        !.color    = IF p >= 3 THEN n.color ELSE @,
        !.labels   = {mapping[Attachable(n, mapping)[j]] :
                         j \in 1..(IF p > 3 THEN p - 3 ELSE 0)}]

\* The new note after the first p mutations of lines 67-74.
Mutated(new_note, n, mapping, p) ==
    [new_note EXCEPT
        !.pinned   = IF p >= 1 THEN n.pinned ELSE @,
        !.archived = IF p >= 2 THEN n.archived ELSE @,
        !.color    = IF p >= 3 THEN n.color ELSE @,
        !.labels   = {mapping[Attachable(n, mapping)[j]] :
                         j \in 1..(IF p > 3 THEN p - 3 ELSE 0)}]

\* Mutant of MediaOutcomes: the first failing attachment ends the loop over
\* note.media.
MediaOutcomes_StopAtFailure(n) ==
    {o \in UNION {[1..k -> BOOLEAN] : k \in 0..n.media} :
        /\ \A j \in 1..(Len(o) - 1) : o[j]
        /\ Len(o) < n.media => (Len(o) > 0 /\ ~o[Len(o)])}

\* Lines 78-83: one outcome per attachment (TRUE: blob fetched and image
\* added; FALSE: an exception, caught and reported).
MediaOutcomes(n) == [1..n.media -> BOOLEAN]

Added(outcome) == Cardinality({j \in DOMAIN outcome : outcome[j]})

MediaLog(outcome, i) ==
    [j \in DOMAIN outcome |->
        IF outcome[j] THEN Ev("image", i) ELSE Ev("attachmentFailed", i)]

\* Mutant of CN_Skip: the wrong flag is tested.
CN_Skip_Archived(n) == n.archived

\* Line 55
CN_Skip(n) == n.trashed

\* Mutant of RetryAgain: off by one, the last attempt is not recognised.
RetryAgain_OffByOne(a) == a < MAX_RETRIES

\* Line 89
RetryAgain(a) == a < MAX_RETRIES - 1

\* Line 91
wait_time(a) == DELAY_SECONDS * (2 ^ a)

\* Line 102
FlushDue(n) == n % FLUSH_EVERY = 0

\* Lines 53-59: the head of the loop over src.all().
CN_Next ==
    /\ pc = "cn_loop"
    /\ IF idx > Len(src.notes)
       THEN /\ pc' = "cn_end"
            /\ UNCHANGED <<idx, attempt>>
       ELSE IF CN_Skip(src.notes[idx])
            THEN /\ idx' = idx + 1
                 /\ UNCHANGED <<pc, attempt>>
            ELSE /\ attempt' = 0
                 /\ pc' = "cn_try"
                 /\ UNCHANGED idx
    /\ UNCHANGED <<src, dst, remote, run, counts, dst_labels, copied, note,
                   dst_notes_lookup, dst_note, reminders_copied_count,
                   total_source_notes_with_reminders, failures, log, prev>>

\* Lines 60-86: the body of the try statement, for one attempt.
CN_Attempt ==
    /\ pc = "cn_try"
    /\ LET n == src.notes[idx] IN
       IF IsDuplicate(n, dst.notes)
       THEN \* line 63: continue, in the retry loop
            /\ log' = Append(log, Ev("duplicate", idx))
            /\ IF attempt + 1 < MAX_RETRIES
               THEN /\ attempt' = attempt + 1
                    /\ UNCHANGED <<pc, idx>>
               ELSE /\ idx' = idx + 1
                    /\ pc' = "cn_loop"
                    /\ UNCHANGED attempt
            /\ UNCHANGED <<dst, copied, failures>>
       ELSE \/ \* createNote raises
               /\ MayFail
               /\ failures' = failures + 1
               /\ log' = Append(log, Ev("error", idx))
               /\ pc' = "cn_except"
               /\ UNCHANGED <<dst, copied, idx, attempt>>
            \/ \* createNote returns, mutation q of the new note raises
               /\ MayFail
               /\ \E q \in 1..Mutations(n, dst_labels) :
                    LET new_note == createNote(n.title, n.text, idx, run) IN
                    dst' = [dst EXCEPT !.notes =
                              AddNote(@, Mutated(new_note, n, dst_labels, q - 1))]
               /\ failures' = failures + 1
               /\ log' = log \o <<Ev("create", idx), Ev("error", idx)>>
               /\ pc' = "cn_except"
               /\ UNCHANGED <<copied, idx, attempt>>
            \/ \* lines 66-86 complete
               /\ \E outcome \in MediaOutcomes(n) :
                    LET new_note == createNote(n.title, n.text, idx, run)
                        failed == n.media - Added(outcome)
                    IN  /\ failures + failed <= MaxFailures
                        /\ failures' = failures + failed
                        /\ dst' = [dst EXCEPT !.notes =
                                     AddNote(@, [Mutated(new_note, n, dst_labels,
                                                         Mutations(n, dst_labels))
                                                   EXCEPT !.media = Added(outcome)])]
                        /\ log' = log \o <<Ev("create", idx)>> \o MediaLog(outcome, idx)
                                      \o <<Ev("copied", idx)>>
               /\ copied' = copied + 1
               /\ idx' = idx + 1
               /\ pc' = "cn_loop"
               /\ UNCHANGED attempt
    /\ UNCHANGED <<src, remote, run, counts, dst_labels, note,
                   dst_notes_lookup, dst_note, reminders_copied_count,
                   total_source_notes_with_reminders, prev>>

\* Lines 87-98: the exception handler.
CN_Except ==
    /\ pc = "cn_except"
    /\ IF RetryAgain(attempt)
       THEN /\ log' = Append(log, Slept("backoff", idx, wait_time(attempt)))
            /\ IF attempt + 1 < MAX_RETRIES
               THEN /\ attempt' = attempt + 1
                    /\ pc' = "cn_try"
                    /\ UNCHANGED idx
               ELSE /\ idx' = idx + 1
                    /\ pc' = "cn_loop"
                    /\ UNCHANGED attempt
            /\ UNCHANGED remote
       ELSE /\ log' = log \o <<Ev("failed", idx), Ev("sync", 0)>>
            /\ remote' = Synced(dst)
            /\ idx' = idx + 1
            /\ pc' = "cn_loop"
            /\ UNCHANGED attempt
    /\ UNCHANGED <<src, dst, run, counts, dst_labels, copied, note,
                   dst_notes_lookup, dst_note, reminders_copied_count,
                   total_source_notes_with_reminders, failures, prev>>

\* Lines 101-105, after the loop, and line 225: the script calls
\* copy_reminders.
CN_Return ==
    /\ pc = "cn_end"
    /\ IF FlushDue(copied)
       THEN /\ log' = log \o <<Slept("cooldown", 0, DELAY_SECONDS), Ev("sync", 0),
                               Ev("notesReturned", copied)>>
            /\ remote' = Synced(dst)
       ELSE /\ log' = log \o <<Slept("cooldown", 0, DELAY_SECONDS),
                               Ev("notesReturned", copied)>>
            /\ UNCHANGED remote
    /\ pc' = "copy_reminders"
    /\ UNCHANGED <<src, dst, run, counts, dst_labels, idx, attempt, copied, note,
                   dst_notes_lookup, dst_note, reminders_copied_count,
                   total_source_notes_with_reminders, failures, prev>>

(* ---------------- copy_reminders (lines 107-180) ----------------------- *)
Key(n) == <<n.title, n.text>>

\* Lines 110-114: (title, text) -> note, over the non-trashed notes of
\* dst.all(); a later note of the same key replaces an earlier one.
Lookup(notes) ==
    [key \in {Key(notes[k]) : k \in {j \in 1..Len(notes) : ~notes[j].trashed}} |->
        LET ks == {k \in 1..Len(notes) : ~notes[k].trashed /\ Key(notes[k]) = key}
        IN  CHOOSE k \in ks : \A j \in ks : j <= k]

\* Lines 127-129: hasattr(note, 'reminders') reads the loop variable of line
\* 111, which is the last note of dst.all() and is unbound when dst.all() is
\* empty; every note object carries a reminders collection.
HasNoReminders(src_note) == src_note.reminders = {}

\* Line 155: dst_note.reminders.set(src_reminders_list)
SetReminders(notes, k, reminders) == [notes EXCEPT ![k].reminders = reminders]

\* Lines 110-119
CR_Build ==
    /\ pc = "copy_reminders"
    /\ dst_notes_lookup' = Lookup(dst.notes)
    /\ note' = Len(dst.notes)
    /\ reminders_copied_count' = 0
    /\ total_source_notes_with_reminders' = 0
    /\ idx' = 1
    /\ pc' = "cr_loop"
    /\ UNCHANGED <<src, dst, remote, run, counts, dst_labels, attempt, copied,
                   dst_note, failures, log, prev>>

\* Lines 121-146: the head of the loop over src.all(), up to the fetch of the
\* destination note.
CR_Next ==
    /\ pc = "cr_loop"
    /\ IF idx > Len(src.notes)
       THEN /\ pc' = "cr_end"
            /\ UNCHANGED <<idx, attempt, dst_note, failures, log,
                           total_source_notes_with_reminders>>
       ELSE LET src_note == src.notes[idx]
                lookup_key == Key(src_note)
            IN
            IF src_note.trashed
            THEN /\ idx' = idx + 1
                 /\ UNCHANGED <<pc, attempt, dst_note, failures, log,
                                total_source_notes_with_reminders>>
            ELSE IF note = 0
            THEN \* line 127: note is unbound, the exception ends the script
                 /\ log' = Append(log, Ev("unbound", idx))
                 /\ pc' = "aborted"
                 /\ UNCHANGED <<idx, attempt, dst_note, failures,
                                total_source_notes_with_reminders>>
            ELSE IF HasNoReminders(src_note)
            THEN /\ idx' = idx + 1
                 /\ UNCHANGED <<pc, attempt, dst_note, failures, log,
                                total_source_notes_with_reminders>>
            ELSE
              /\ total_source_notes_with_reminders' =
                     total_source_notes_with_reminders + 1
              /\ IF lookup_key \notin DOMAIN dst_notes_lookup
                 THEN /\ log' = Append(log, Ev("warning", idx))
                      /\ idx' = idx + 1
                      /\ UNCHANGED <<pc, attempt, dst_note, failures>>
                 ELSE \/ \* dst.get raises
                         /\ MayFail
                         /\ failures' = failures + 1
                         /\ log' = Append(log, Ev("fetchFailed", idx))
                         /\ idx' = idx + 1
                         /\ UNCHANGED <<pc, attempt, dst_note>>
                      \/ /\ dst_note' = dst_notes_lookup[lookup_key]
                         /\ attempt' = 0
                         /\ pc' = "cr_try"
                         /\ UNCHANGED <<idx, failures, log>>
    /\ UNCHANGED <<src, dst, remote, run, counts, dst_labels, copied, note,
                   dst_notes_lookup, reminders_copied_count, prev>>

\* Lines 150-159: the body of the try statement, for one attempt.
CR_Attempt ==
    /\ pc = "cr_try"
    /\ \/ /\ dst' = [dst EXCEPT !.notes =
                       SetReminders(@, dst_note, src.notes[idx].reminders)]
          /\ reminders_copied_count' = reminders_copied_count + 1
          /\ log' = Append(log, Ev("reminders", idx))
          /\ pc' = "cr_sleep"
          /\ UNCHANGED failures
       \/ /\ MayFail
          /\ failures' = failures + 1
          /\ log' = Append(log, Ev("remindersError", idx))
          /\ pc' = "cr_except"
          /\ UNCHANGED <<dst, reminders_copied_count>>
    /\ UNCHANGED <<src, remote, run, counts, dst_labels, idx, attempt, copied,
                   note, dst_notes_lookup, dst_note,
                   total_source_notes_with_reminders, prev>>

\* Lines 161-168: the exception handler.
CR_Except ==
    /\ pc = "cr_except"
    /\ IF RetryAgain(attempt)
       THEN /\ log' = Append(log, Slept("remindersBackoff", idx, wait_time(attempt)))
            /\ IF attempt + 1 < MAX_RETRIES
               THEN /\ attempt' = attempt + 1
                    /\ pc' = "cr_try"
               ELSE /\ pc' = "cr_sleep"
                    /\ UNCHANGED attempt
       ELSE /\ log' = Append(log, Ev("remindersFailed", idx))
            /\ pc' = "cr_sleep"
            /\ UNCHANGED attempt
    /\ UNCHANGED <<src, dst, remote, run, counts, dst_labels, idx, copied, note,
                   dst_notes_lookup, dst_note, reminders_copied_count,
                   total_source_notes_with_reminders, failures, prev>>

\* Line 171
CR_Sleep ==
    /\ pc = "cr_sleep"
    /\ log' = Append(log, Slept("remindersCooldown", idx, DELAY_SECONDS))
    /\ idx' = idx + 1
    /\ pc' = "cr_loop"
    /\ UNCHANGED <<src, dst, remote, run, counts, dst_labels, attempt, copied,
                   note, dst_notes_lookup, dst_note, reminders_copied_count,
                   total_source_notes_with_reminders, failures, prev>>

\* Line 174: the final sync of copy_reminders, which then returns.
CR_Return ==
    /\ pc = "cr_end"
    /\ log' = log \o <<Ev("sync", 0), Ev("remindersReturned", 0)>>
    /\ remote' = Synced(dst)
    /\ pc' = "final_sync"
    /\ UNCHANGED <<src, dst, run, counts, dst_labels, idx, attempt, copied, note,
                   dst_notes_lookup, dst_note, reminders_copied_count,
                   total_source_notes_with_reminders, failures, prev>>

(* ---------------- the script (lines 205-233) --------------------------- *)
\* Line 231
FinalSync ==
    /\ pc = "final_sync"
    /\ log' = Append(log, Ev("sync", 0))
    /\ remote' = Synced(dst)
    /\ pc' = "done"
    /\ UNCHANGED <<src, dst, run, counts, dst_labels, idx, attempt, copied, note,
                   dst_notes_lookup, dst_note, reminders_copied_count,
                   total_source_notes_with_reminders, failures, prev>>

\* What the next invocation remembers of this one (history).
Summary ==
    [ran |-> TRUE,
     labelsReturned |-> Logged("labelsReturned", 0),
     labelsCreated |-> Cardinality({k \in 1..Len(log) : log[k].e = "createLabel"}),
     notesCreated |-> Cardinality({k \in 1..Len(log) : log[k].e = "create"}),
     notesReturned |-> \E c \in 0..Len(src.notes) : Logged("notesReturned", c),
     exhausted |-> \E i \in 1..Len(src.notes) : Logged("failed", i),
     lost |-> dst # remote,
     terminated |-> pc = "terminated"]

\* The process is terminated while the script runs (section 5 of the design:
\* the only way to cancel a run).  What the session has not synced is lost.
Terminate ==
    /\ pc \notin {"done", "aborted", "terminated"}
    /\ run < MaxRuns
    /\ pc' = "terminated"
    /\ UNCHANGED <<src, dst, remote, run, counts, dst_labels, idx, attempt, copied,
                   note, dst_notes_lookup, dst_note, reminders_copied_count,
                   total_source_notes_with_reminders, failures, log, prev>>

\* Lines 205-211: the script is invoked again, after it ended, after an
\* uncaught exception ended it or after it was terminated: a new process logs
\* in and dst.sync() loads the destination account as last synced.
Rerun ==
    /\ pc \in {"done", "aborted", "terminated"}
    /\ run < MaxRuns
    /\ run' = run + 1
    /\ prev' = Summary
    /\ dst' = remote
    /\ pc' = "count"
    /\ counts' = <<0, 0, 0>>
    /\ dst_labels' = NoMapping
    /\ idx' = 0
    /\ attempt' = 0
    /\ copied' = 0
    /\ note' = 0
    /\ dst_notes_lookup' = <<>>
    /\ dst_note' = 0
    /\ reminders_copied_count' = 0
    /\ total_source_notes_with_reminders' = 0
    /\ log' = <<>>
    /\ UNCHANGED <<src, remote, failures>>

Next ==
    \/ Count
    \/ SL_Build
    \/ SL_Step
    \/ SL_Return
    \/ CN_Next
    \/ CN_Attempt
    \/ CN_Except
    \/ CN_Return
    \/ CR_Build
    \/ CR_Next
    \/ CR_Attempt
    \/ CR_Except
    \/ CR_Sleep
    \/ CR_Return
    \/ FinalSync
    \/ Rerun

Spec == Init /\ [][Next]_vars

\* The script, with invocations that may be terminated at any point.
NextResume ==
    \/ Next
    \/ Terminate

SpecResume == Init /\ [][NextResume]_vars

\* The script on a large source account.
SpecBulk == InitBulk /\ [][Next]_vars

(* ======================= properties ==================================== *)
SrcIdx == 1..Len(src.notes)
DstIdx == 1..Len(dst.notes)

SameKey(a, b) == a.title = b.title /\ a.text = b.text

\* Destination notes created by the migration (in any invocation).
CreatedIdx == {k \in DstIdx : dst.notes[k].byRun >= 1}

NotesPhase == pc \in {"cn_loop", "cn_try", "cn_except", "cn_end"}

NotesReturned == \E c \in 0..Len(src.notes) : Logged("notesReturned", c)

\* copy_notes is done with the source note i in this invocation.
Finished(i) == NotesReturned \/ (NotesPhase /\ idx > i)

\* C1: Idempotence of the note pass.  In an invocation that follows one whose
\* copy_notes returned with no note abandoned after MAX_RETRIES attempts, and
\* that starts from the destination that invocation left, copy_notes creates
\* no destination note and returns a copied count of 0.
C1_Idempotence ==
    (run >= 2 /\ prev.notesReturned /\ ~prev.exhausted /\ ~prev.lost) =>
        /\ \A k \in 1..Len(log) : log[k].e # "create"
        /\ \A k \in DstIdx : dst.notes[k].byRun # run
        /\ NotesPhase => copied = 0
        /\ NotesReturned => Logged("notesReturned", 0) /\ copied = 0

\* C1 witness: the second copy_notes has returned, after a first one that
\* created a note and abandoned none; the second found a duplicate.
C1_Witness ==
    /\ run = 2 /\ prev.notesReturned /\ ~prev.exhausted /\ ~prev.lost
    /\ prev.notesCreated >= 1
    /\ NotesReturned
    /\ \E i \in SrcIdx : Logged("duplicate", i)

\* C2: A trashed source note is never copied: createNote is never called for
\* it, no destination note originates from it, and it is never counted.
C2_TrashedNeverCopied ==
    /\ \A i \in SrcIdx : src.notes[i].trashed =>
          /\ ~Logged("create", i)
          /\ ~Logged("copied", i)
          /\ \A k \in CreatedIdx : dst.notes[k].origin # i
    /\ NotesPhase \/ NotesReturned =>
          copied <= Cardinality({i \in SrcIdx : ~src.notes[i].trashed})

\* C2 witness: copy_notes went past a trashed source note that has no
\* counterpart in the destination.
C2_Witness ==
    /\ pc = "cn_end"
    /\ \E i \in SrcIdx :
          /\ src.notes[i].trashed
          /\ \A k \in DstIdx : ~SameKey(dst.notes[k], src.notes[i])

\* The step calls createNote for the source note i: the call returns a note
\* or raises.
CreateStep(i) ==
    \/ CountEv("create", i)' > CountEv("create", i)
    \/ CountEv("error", i)' > CountEv("error", i)

\* C3: No duplication under transient failures.  createNote is called for a
\* source note only when no destination note has its (title, text); hence no
\* source note gives rise to more than one destination note, and the source
\* notes sharing one (title, text) give rise to at most one.
C3_NoDuplication ==
    /\ [][\A i \in SrcIdx : CreateStep(i) =>
             \A k \in DstIdx : ~SameKey(dst.notes[k], src.notes[i])]_vars
    /\ [](\A j, k \in CreatedIdx :
             (dst.notes[j].origin = dst.notes[k].origin
                \/ SameKey(dst.notes[j], dst.notes[k])) => j = k)

\* C3 witness: two source notes share their (title, text); an attempt for the
\* first failed after createNote; copy_notes is past both and one destination
\* note was created.
C3_Witness ==
    /\ pc = "cn_end"
    /\ Len(src.notes) = 2
    /\ ~src.notes[1].trashed /\ ~src.notes[2].trashed
    /\ SameKey(src.notes[1], src.notes[2])
    /\ Logged("create", 1) /\ Logged("error", 1)
    /\ Cardinality(CreatedIdx) = 1

\* Attempts of copy_notes for the source note i that raised.
Errors(i) == CountEv("error", i)

\* The backoff delays slept for the source note i, in order.
Delays(i) ==
    LET s == SelectSeq(log, LAMBDA ev : ev.e = "backoff" /\ ev.n = i)
    IN  [j \in 1..Len(s) |-> s[j].d]

\* k delays, the first of DELAY_SECONDS, each double the previous.
Backoffs(k) == [j \in 1..k |-> DELAY_SECONDS * (2 ^ (j - 1))]

\* The source note i had no duplicate in the destination when copy_notes
\* reached it: the first thing its first attempt did was to call createNote.
FreshAtStart(i) ==
    LET ks == {k \in 1..Len(log) :
                  log[k].n = i /\ log[k].e \in {"duplicate", "create", "error"}}
    IN  /\ ks # {}
        /\ log[CHOOSE k \in ks : \A j \in ks : k <= j].e # "duplicate"

\* The labels of the source note i, as reconciled by the mapping.
Reconciled(i) ==
    {dst_labels[nm] : nm \in src.notes[i].labels \cap DOMAIN dst_labels}

\* The destination holds a copy of the source note i made by this invocation,
\* with its attributes and its reconciled labels.
Faithful(i) ==
    \E k \in DstIdx :
        /\ dst.notes[k].origin = i /\ dst.notes[k].byRun = run
        /\ dst.notes[k].title = src.notes[i].title
        /\ dst.notes[k].text = src.notes[i].text
        /\ dst.notes[k].pinned = src.notes[i].pinned
        /\ dst.notes[k].archived = src.notes[i].archived
        /\ dst.notes[k].color = src.notes[i].color
        /\ dst.notes[k].labels = Reconciled(i)

\* C4: Retry success.  For a non-trashed source note without a duplicate, if
\* exactly k < MAX_RETRIES attempts raised (in createNote, an attribute set or
\* a label attach) and no later operation did, the note is counted as copied,
\* its copy carries its attributes and reconciled labels, and exactly k
\* backoff delays DELAY_SECONDS*2^0 .. DELAY_SECONDS*2^(k-1) were slept.
C4_RetrySuccess ==
    \A i \in SrcIdx :
        (Finished(i) /\ ~src.notes[i].trashed /\ FreshAtStart(i)
            /\ Errors(i) < MAX_RETRIES) =>
                /\ Logged("copied", i)
                /\ Faithful(i)
                /\ Delays(i) = Backoffs(Errors(i))

\* The step abandons the source note i.
AbandonStep(i) == CountEv("failed", i)' > CountEv("failed", i)

\* C5: Retry exhaustion.  A source note whose MAX_RETRIES attempts all raised
\* is abandoned: it is not counted, there were MAX_RETRIES attempts and
\* MAX_RETRIES - 1 backoff delays, none after the last failure; the
\* destination is synced at once and copy_notes goes on with the next note.
C5_RetryExhaustion ==
    /\ [](\A i \in SrcIdx :
            /\ (Finished(i) /\ Errors(i) >= MAX_RETRIES) => Logged("failed", i)
            /\ Logged("failed", i) =>
                 /\ Errors(i) = MAX_RETRIES
                 /\ CountEv("duplicate", i) = 0
                 /\ CountEv("failed", i) = 1
                 /\ ~Logged("copied", i)
                 /\ Delays(i) = Backoffs(MAX_RETRIES - 1)
                 /\ \E p \in 2..(Len(log) - 1) :
                        /\ log[p] = Ev("failed", i)
                        /\ log[p - 1] = Ev("error", i)
                        /\ log[p + 1] = Ev("sync", 0)
                 /\ Finished(i)
                 /\ pc = "aborted" => NotesReturned)
    /\ [][\A i \in SrcIdx : AbandonStep(i) =>
             /\ remote' = dst'
             /\ pc' = "cn_loop" /\ idx' = i + 1]_vars

\* C5 witness: the first source note was abandoned and the second one copied.
C5_Witness ==
    /\ Logged("failed", 1)
    /\ Logged("copied", 2)

SrcLabelIdx == 1..Len(src.labels)

Names(labels) == {labels[k].name : k \in 1..Len(labels)}

LabelsReturned == Logged("labelsReturned", 0)

\* The labels the destination had when sync_labels was called: all but the
\* ones this invocation created, which were appended.
PreLabels ==
    SubSeq(dst.labels, 1,
           Len(dst.labels) - Cardinality({k \in 1..Len(log) : log[k].e = "createLabel"}))

\* C6: Label superset.  After sync_labels returned, the destination has a
\* label of every source label name, the keys of the mapping are the names of
\* the labels the destination had and of the source labels, and every value is
\* a label of the destination account carrying the name of its key.
C6_LabelSuperset ==
    LabelsReturned =>
        /\ \A k \in SrcLabelIdx : src.labels[k].name \in Names(dst.labels)
        /\ DOMAIN dst_labels = Names(PreLabels) \cup Names(src.labels)
        /\ \A nm \in DOMAIN dst_labels :
              /\ dst_labels[nm].acct = "dst"
              /\ dst_labels[nm].name = nm
              /\ \E j \in 1..Len(dst.labels) : dst.labels[j] = dst_labels[nm]
              /\ \A k \in SrcLabelIdx : src.labels[k] # dst_labels[nm]

\* C6 witness: sync_labels returned after creating a label in a destination
\* that already had one.
C6_Witness ==
    /\ LabelsReturned
    /\ Len(PreLabels) >= 1
    /\ Len(dst.labels) > Len(PreLabels)

\* The calls of createLabel of this invocation for the name nm.
LabelCalls(nm) ==
    {k \in 1..Len(log) :
        /\ log[k].e \in {"createLabel", "createLabelFailed"}
        /\ src.labels[log[k].n].name = nm}

\* The step calls createLabel for the source label k.
LabelCallStep(k) ==
    \/ CountEv("createLabel", k)' > CountEv("createLabel", k)
    \/ CountEv("createLabelFailed", k)' > CountEv("createLabelFailed", k)

\* C7: Idempotence of the label pass.  sync_labels calls createLabel at most
\* once per name and never for a name the destination has; an invocation that
\* follows one whose sync_labels returned, and starts from the destination it
\* left, calls createLabel for no name.
C7_LabelIdempotence ==
    /\ [](\A nm \in LabelNames : Cardinality(LabelCalls(nm)) <= 1)
    /\ []((run >= 2 /\ prev.labelsReturned /\ ~prev.lost) =>
             \A nm \in LabelNames : LabelCalls(nm) = {})
    /\ [][\A k \in SrcLabelIdx : LabelCallStep(k) =>
             src.labels[k].name \notin Names(dst.labels)]_vars

\* C7 witness: the second sync_labels returned without a call of createLabel,
\* after a first one that created a label; the source enumerates a name twice.
C7_Witness ==
    /\ run = 2 /\ prev.labelsReturned /\ ~prev.lost
    /\ prev.labelsCreated >= 1
    /\ LabelsReturned
    /\ \E j, k \in SrcLabelIdx : j < k /\ src.labels[j].name = src.labels[k].name

\* C8: Label failure isolation.  When createLabel failed for a source label,
\* the script is not ended by it, and once sync_labels returned every later
\* source label has its name in the mapping and in the destination.
C8_LabelFailureIsolation ==
    \A k \in SrcLabelIdx : Logged("createLabelFailed", k) =>
        /\ ~(pc = "aborted" /\ ~LabelsReturned)
        /\ LabelsReturned =>
              \A j \in SrcLabelIdx : j > k =>
                  /\ src.labels[j].name \in DOMAIN dst_labels
                  /\ src.labels[j].name \in Names(dst.labels)

\* copy_reminders is over: it returned, or an exception left it.
RemindersOver ==
    Logged("remindersReturned", 0) \/ \E j \in SrcIdx : Logged("unbound", j)

\* The non-trashed destination notes with the (title, text) of source note i.
Matches(i) ==
    {k \in DstIdx : ~dst.notes[k].trashed /\ SameKey(dst.notes[k], src.notes[i])}

\* No remote operation of copy_reminders failed for the source note i.
NoReminderFailure(i) ==
    ~Logged("fetchFailed", i) /\ ~Logged("remindersError", i)

\* C9: Reminder matching.  When copy_reminders is over, for every non-trashed
\* source note with reminders (for which no remote operation failed): if a
\* non-trashed destination note has its (title, text), its reminder set was
\* set once, on such a note; if none has, a warning was reported and no
\* reminders were set for it.
C9_ReminderMatching ==
    RemindersOver =>
        \A i \in SrcIdx :
            (~src.notes[i].trashed /\ src.notes[i].reminders # {}
                /\ NoReminderFailure(i)) =>
                    IF Matches(i) # {}
                    THEN /\ CountEv("reminders", i) = 1
                         /\ \E k \in Matches(i) :
                               dst.notes[k].reminders = src.notes[i].reminders
                    ELSE /\ Logged("warning", i)
                         /\ ~Logged("reminders", i)

\* C10: Copy fidelity.  Every note counted as copied is in the destination
\* with the title, text, pinned, archived and color of the source note and
\* exactly the labels the mapping has for its label names; a label name the
\* mapping lacks is left out: when no remote operation fails, the note is
\* copied and counted once, at the first attempt, whatever its labels.
C10_CopyFidelity ==
    \A i \in SrcIdx :
        /\ Logged("copied", i) => Faithful(i)
        /\ (Finished(i) /\ ~src.notes[i].trashed /\ FreshAtStart(i)
               /\ Errors(i) = 0) =>
                  /\ CountEv("copied", i) = 1
                  /\ Delays(i) = <<>>

\* C10 witness: a note was copied that has a label the mapping has and a label
\* the mapping lacks.
C10_Witness ==
    \E i \in SrcIdx :
        /\ Logged("copied", i)
        /\ \E nm \in src.notes[i].labels : nm \in DOMAIN dst_labels
        /\ \E nm \in src.notes[i].labels : nm \notin DOMAIN dst_labels

\* This invocation abandoned a source note after MAX_RETRIES failed attempts.
Abandoned == \E i \in SrcIdx : Logged("failed", i)

\* C11: Resumability.  When an invocation was terminated and the script,
\* invoked again, has run to its end (without abandoning a note): every note
\* the migration had durably copied was skipped by the dedup check, no
\* (title, text) copied by the migration is on two destination notes, and
\* every non-trashed source note has a counterpart, a non-trashed destination
\* note with its (title, text).
C11_Resumability ==
    (run >= 2 /\ prev.terminated /\ pc = "done" /\ ~Abandoned) =>
        /\ \A k \in CreatedIdx : dst.notes[k].byRun < run =>
              /\ Logged("duplicate", dst.notes[k].origin)
              /\ ~Logged("create", dst.notes[k].origin)
        /\ \A j, k \in CreatedIdx : SameKey(dst.notes[j], dst.notes[k]) => j = k
        /\ \A i \in SrcIdx : ~src.notes[i].trashed =>
              \E k \in DstIdx :
                  ~dst.notes[k].trashed /\ SameKey(dst.notes[k], src.notes[i])

\* The content of a note that copy_notes sets.
Content(n) == <<n.title, n.text, n.pinned, n.archived, n.color, n.labels>>

\* C12: Frame of the note pass.  No step changes the source account.  A step
\* of copy_notes changes the destination only by adding notes of this
\* invocation: its labels and the notes it has stay as they are.  Within an
\* invocation every destination note stays, with its title, text, pinned,
\* archived, color and labels.
C12_Frame ==
    [][/\ src' = src
       /\ NotesPhase =>
             /\ dst'.labels = dst.labels
             /\ Len(dst'.notes) >= Len(dst.notes)
             /\ \A k \in DstIdx : dst'.notes[k] = dst.notes[k]
             /\ \A k \in (Len(dst.notes) + 1)..Len(dst'.notes) :
                   dst'.notes[k].byRun = run /\ dst'.notes[k].origin = idx
       /\ run' = run =>
             /\ Len(dst'.notes) >= Len(dst.notes)
             /\ \A k \in DstIdx : Content(dst'.notes[k]) = Content(dst.notes[k])]_vars

\* C12 witness: copy_notes is past the loop, in a destination that had a note
\* before the migration and has a note this invocation created.
C12_Witness ==
    /\ pc = "cn_end"
    /\ \E k \in DstIdx : dst.notes[k].byRun = 0
    /\ \E k \in DstIdx : dst.notes[k].byRun = run

\* The tally of a list of notes, one note at a time: trashed notes add to
\* nothing, an archived note adds to the total and to the archived count.
RECURSIVE Tally(_)
Tally(notes) ==
    IF notes = <<>> THEN <<0, 0>>
    ELSE LET n == Head(notes)
             rest == Tally(Tail(notes))
         IN  IF n.trashed THEN rest
             ELSE <<rest[1] + 1, rest[2] + (IF n.archived THEN 1 ELSE 0)>>

\* C13: Inventory counter.  count_source_notes returns the number of
\* non-trashed notes, the number of archived non-trashed notes, and their
\* difference; it changes neither account.
C13_InventoryCounter ==
    [][pc = "count" =>
          /\ counts'[1] = Tally(src.notes)[1]
          /\ counts'[2] = Tally(src.notes)[2]
          /\ counts'[3] = counts'[1] - counts'[2]
          /\ src' = src /\ dst' = dst /\ remote' = remote]_vars

\* C13 witness: the count is taken of a source with a trashed note and an
\* archived note that is not trashed.
C13_Witness ==
    /\ pc = "sync_labels"
    /\ \E i \in SrcIdx : src.notes[i].trashed
    /\ \E i \in SrcIdx : ~src.notes[i].trashed /\ src.notes[i].archived
    /\ counts = <<1, 1, 0>>

\* C14: Dedup considers only non-trashed destination notes.  A source note is
\* skipped as a duplicate only if a destination note that is not trashed has
\* its (title, text); when only trashed destination notes have it, the note is
\* created and counted.
C14_DedupNonTrashed ==
    \A i \in SrcIdx :
        /\ Logged("duplicate", i) =>
              \E k \in DstIdx :
                  ~dst.notes[k].trashed /\ SameKey(dst.notes[k], src.notes[i])
        /\ (/\ Finished(i) /\ ~src.notes[i].trashed /\ Errors(i) = 0
            /\ \A k \in DstIdx : dst.notes[k].byRun < run =>
                  (SameKey(dst.notes[k], src.notes[i]) => dst.notes[k].trashed)
            /\ \A j \in 1..(i - 1) : ~SameKey(src.notes[j], src.notes[i]))
           => Logged("create", i) /\ Logged("copied", i)

\* C16: Inter-note cooldown.  Between two createNote calls for different
\* source notes a cooldown delay is slept.
C16_InterNoteCooldown ==
    \A j, k \in 1..Len(log) :
        (/\ j < k
         /\ log[j].e \in {"create", "error"} /\ log[k].e \in {"create", "error"}
         /\ log[j].n # log[k].n)
        => \E m \in (j + 1)..(k - 1) : log[m].e = "cooldown"

\* Destination notes this invocation copied that no flush has made durable.
Unflushed ==
    {k \in DstIdx : /\ k > Len(remote.notes)
                    /\ dst.notes[k].byRun = run
                    /\ Logged("copied", dst.notes[k].origin)}

\* C15: Periodic flush.  When copy_notes starts on a source note right after
\* the copy that brought the copied count to a positive multiple of
\* FLUSH_EVERY, the destination has been flushed; and never more than
\* FLUSH_EVERY copied notes are unflushed during the note pass.
C15_PeriodicFlush ==
    NotesPhase =>
        /\ (/\ pc = "cn_try" /\ attempt = 0
            /\ copied > 0 /\ copied % FLUSH_EVERY = 0
            /\ log[Len(log)].e = "copied")
           => remote.notes = dst.notes
        /\ Cardinality(Unflushed) <= FLUSH_EVERY

\* The events of the attachments of the source note i.
MediaEvents(i) ==
    {k \in 1..Len(log) : log[k].n = i /\ log[k].e \in {"image", "attachmentFailed"}}

\* C17: Attachment failure isolation.  When an attachment of a source note
\* fails, every attachment of the note is attempted in that same attempt, the
\* attempt goes on to count the note with nothing but attachment events in
\* between (no retry, no backoff, no flush), and the note is counted once.
C17_AttachmentIsolation ==
    \A i \in SrcIdx : \A p \in 1..Len(log) :
        log[p] = Ev("attachmentFailed", i) =>
            /\ Cardinality(MediaEvents(i)) = src.notes[i].media
            /\ \E q \in (p + 1)..Len(log) :
                  /\ log[q] = Ev("copied", i)
                  /\ (p + 1)..(q - 1) \subseteq MediaEvents(i)
            /\ CountEv("copied", i) = 1
            /\ CountEv("create", i) = 1
            /\ \A m \in p..Len(log) :
                  log[m].n = i => log[m].e \notin {"error", "backoff", "failed"}

\* C17 witness: the first attachment of a note failed, the second one was
\* added, and the note was counted.
C17_Witness ==
    \E i \in SrcIdx : \E p \in 1..Len(log) :
        /\ p + 2 <= Len(log)
        /\ log[p] = Ev("attachmentFailed", i)
        /\ log[p + 1] = Ev("image", i)
        /\ log[p + 2] = Ev("copied", i)
        /\ copied >= 1

\* The events of copy_reminders for one source note.
ReminderEvents ==
    {"unbound", "warning", "fetchFailed", "reminders", "remindersError",
     "remindersBackoff", "remindersFailed", "remindersCooldown"}

\* The non-trashed source notes whose reminder set is not empty.
WithReminders ==
    {i \in SrcIdx : ~src.notes[i].trashed /\ src.notes[i].reminders # {}}

\* C18: Has-reminders predicate.  copy_reminders does nothing for a non-trashed
\* source note whose reminder set is empty; when it is over, the total it
\* counted is the number of non-trashed source notes whose reminder set is not
\* empty, whatever the destination holds, and the updated count is at most
\* that total.
C18_HasRemindersPredicate ==
    /\ \A i \in SrcIdx :
          (~src.notes[i].trashed /\ src.notes[i].reminders = {}) =>
              \A k \in 1..Len(log) : log[k].n = i => log[k].e \notin ReminderEvents
    /\ RemindersOver =>
          /\ total_source_notes_with_reminders = Cardinality(WithReminders)
          /\ reminders_copied_count <= total_source_notes_with_reminders

\* The flushes since copy_notes returned.
SyncsSinceNotes ==
    LET r == CHOOSE k \in 1..Len(log) : log[k].e = "notesReturned"
    IN  {k \in (r + 1)..Len(log) : log[k].e = "sync"}

\* C19: Reminder pass completion.  copy_reminders is never left by an
\* exception; it flushes nothing while it goes through the source notes, and
\* it returns having gone through all of them, with one flush, made last.
C19_ReminderPassCompletion ==
    /\ \A j \in SrcIdx : ~Logged("unbound", j)
    /\ pc \in {"cr_loop", "cr_try", "cr_except", "cr_sleep", "cr_end"} =>
          SyncsSinceNotes = {}
    /\ pc = "final_sync" =>
          /\ idx = Len(src.notes) + 1
          /\ SyncsSinceNotes = {Len(log) - 1}
          /\ log[Len(log)] = Ev("remindersReturned", 0)

\* Destination notes created by this invocation.
CreatedNow == {k \in DstIdx : dst.notes[k].byRun = run}

\* C20: Count accuracy.  The count copy_notes returns is the number of
\* destination notes it created: no source note is counted twice, every
\* counted note was created, and every note created is counted as copied or
\* reported as failed.
C20_CountAccuracy ==
    NotesReturned =>
        /\ Logged("notesReturned", copied)
        /\ copied = Cardinality(CreatedNow)
        /\ \A i \in SrcIdx : CountEv("copied", i) <= 1
        /\ \A i \in SrcIdx :
              Logged("copied", i) => \E k \in CreatedNow : dst.notes[k].origin = i
        /\ \A k \in CreatedNow :
              Logged("copied", dst.notes[k].origin) \/ Logged("failed", dst.notes[k].origin)

====
